---- MODULE Spec2Model ----
(***************************************************************************)
(* Model of ffxiv-netstatd (src/ffxiv-netstatd/src/main.rs): the handler   *)
(* of GET /sockets calls get_ffxiv_sockets, which locates the game process *)
(* under /proc, collects the inodes of its socket descriptors, reads its   *)
(* net/tcp table, slices every data line by the header's columns, keeps    *)
(* the rows whose inode is one of the process's sockets and decodes their  *)
(* hexadecimal addresses.                                                  *)
(*                                                                         *)
(* Text is modelled as a sequence of one-character strings, with Rust's    *)
(* 0-based half-open ranges translated to SubSeq.  A Rust panic (unwrap of *)
(* None/Err, slice out of range, missing map key) is the outcome "panic".  *)
(***************************************************************************)
EXTENDS Integers, Sequences, FiniteSets, TLC

VARIABLES
    pc,               \* position of the request handler
    procDir,          \* entries of /proc, in read_dir order
    fdDir,            \* entries of <pid>/fd, in read_dir order
    tcpFile,          \* content of <pid>/net/tcp
    idx,              \* position of the loop of find_ffxiv_proc_path
    examined,         \* positions of the entries whose stat was read
    ffxiv,            \* Option<PathBuf> returned by find_ffxiv_proc_path
    ffxiv_socket_fds, \* HashSet<String> of socket inodes
    headers,          \* Vec<HeaderField> of the table's first line
    tcp_conns,        \* the Lines iterator: the data lines not yet consumed
    rowNo,            \* number of data lines consumed
    decoded,          \* numbers of the data lines given to parse_hex_sockaddr
    result,           \* the Vec<SocketAddrPair> being collected
    response,         \* what the caller of get_ffxiv_sockets receives
    header,           \* argument of a direct call of parse_header
    fields,           \* its return value
    addr,             \* argument of a direct call of parse_hex_sockaddr
    addrResult        \* its outcome

vars == <<pc, procDir, fdDir, tcpFile, idx, examined, ffxiv, ffxiv_socket_fds,
          headers, tcp_conns, rowNo, decoded, result, response,
          header, fields, addr, addrResult>>

----------------------------------------------------------------------------
(* Bounds of the model *)

MaxHeaderLen == 5
MaxTokLen == 4
MaxEntries == 2
MaxFds == 2
MaxRows == 2

----------------------------------------------------------------------------
(* Option<T> *)

None == [some |-> FALSE]
Some(x) == [some |-> TRUE, v |-> x]

(* str helpers.  s[a..b] of Rust is Slice(s, a, b); it panics unless       *)
(* a <= b <= len, which callers test with SliceOk before slicing.          *)

SliceOk(s, a, b) == a <= b /\ b <= Len(s)
Slice(s, a, b) == SubSeq(s, a + 1, b)
SliceFrom(s, a) == SubSeq(s, a + 1, Len(s))

IsWhitespace(c) == c \in {" ", "\t", "\r", "\n"}

(* str::trim: leading and trailing whitespace removed *)
Trim(s) ==
    LET solid == {k \in 1..Len(s) : ~IsWhitespace(s[k])}
    IN IF solid = {} THEN <<>>
       ELSE SubSeq(s, CHOOSE k \in solid : \A o \in solid : k <= o,
                      CHOOSE k \in solid : \A o \in solid : o <= k)

(* s.split(sep).next(): the part of s before the first sep, all of s when  *)
(* there is none (never None, so unwrap_or_default never applies).         *)
SplitFirst(s, sep) ==
    LET seps == {k \in 1..Len(s) : s[k] = sep}
    IN IF seps = {} THEN s
       ELSE SubSeq(s, 1, (CHOOSE k \in seps : \A o \in seps : k <= o) - 1)

(* s.split(sep): all the parts, in order *)
RECURSIVE Split(_, _)
Split(s, sep) ==
    IF \A k \in 1..Len(s) : s[k] # sep THEN <<s>>
    ELSE LET first == SplitFirst(s, sep)
         IN <<first>> \o Split(SubSeq(s, Len(first) + 2, Len(s)), sep)

(* All strings over alphabet of length at most n *)
RECURSIVE StringsUpTo(_, _)
StringsUpTo(alphabet, n) ==
    IF n = 0 THEN {<<>>}
    ELSE LET shorter == StringsUpTo(alphabet, n - 1)
         IN shorter \cup {Append(s, c) : s \in shorter, c \in alphabet}

----------------------------------------------------------------------------
(* parse_header *)

HeaderField(name, start_col, end_col) ==
    [name |-> name, start_col |-> start_col, end_col |-> end_col]

HeaderInit == [fields |-> <<>>, current_field_start |-> None,
               prev_was_separator |-> TRUE]

(* A slip: the separator flag is never cleared *)
HeaderStepStuck(hdr, st, i) ==
    LET chr == hdr[i + 1]
        starts == chr # " " /\ st.prev_was_separator
    IN [fields |->
            IF starts /\ st.current_field_start.some
            THEN Append(st.fields,
                        HeaderField(Trim(Slice(hdr, st.current_field_start.v, i)),
                                    st.current_field_start.v, Some(i)))
            ELSE st.fields,
        current_field_start |->
            IF starts THEN Some(i) ELSE st.current_field_start,
        prev_was_separator |-> TRUE]

(* One iteration of the loop over header.char_indices() *)
HeaderStep(hdr, st, i) ==
    LET chr == hdr[i + 1]
        starts == chr # " " /\ st.prev_was_separator
    IN [fields |->
            IF starts /\ st.current_field_start.some
            THEN Append(st.fields,
                        HeaderField(Trim(Slice(hdr, st.current_field_start.v, i)),
                                    st.current_field_start.v, Some(i)))
            ELSE st.fields,
        current_field_start |->
            IF starts THEN Some(i) ELSE st.current_field_start,
        prev_was_separator |-> (chr = " ")]

(* The loop of lines 115-127 from iteration lo up to hi - 1, begun with   *)
(* the variables st: the iterations below mid, then those from mid.  TLC   *)
(* evaluates an operator's argument only when it is used, which nests one  *)
(* pending iteration in the next; binding half through a one-element set   *)
(* has the first half evaluated before the second begins, and the halving  *)
(* keeps the evaluation shallow on a header of a hundred columns.          *)
RECURSIVE HeaderLoop(_, _, _, _)
HeaderLoop(hdr, st, lo, hi) ==
    IF lo >= hi THEN st
    ELSE IF hi = lo + 1 THEN HeaderStep(hdr, st, lo)
    ELSE LET mid == (lo + hi) \div 2
         IN CHOOSE last \in {HeaderLoop(hdr, half, mid, hi) :
                               half \in {HeaderLoop(hdr, st, lo, mid)}} : TRUE

parse_header(hdr) ==
    LET st == HeaderLoop(hdr, HeaderInit, 0, Len(hdr))
    IN IF st.current_field_start.some
       THEN Append(st.fields,
                   HeaderField(Trim(SliceFrom(hdr, st.current_field_start.v)),
                               st.current_field_start.v, None))
       ELSE st.fields

----------------------------------------------------------------------------
(* parse_hex_sockaddr *)

Pow2_16 == 65536

(* TLC's integers are 32-bit signed, so a u32 is kept as its two 16-bit    *)
(* halves: the value hi * 2^16 + lo.  A u16 is a plain number.             *)
U32(hi, lo) == [hi |-> hi, lo |-> lo]

(* A slip: radix 10 for radix 16 *)
to_digit_decimal(c) ==
    CASE c = "0" -> Some(0) [] c = "1" -> Some(1) [] c = "2" -> Some(2)
      [] c = "3" -> Some(3) [] c = "4" -> Some(4) [] c = "5" -> Some(5)
      [] c = "6" -> Some(6) [] c = "7" -> Some(7) [] c = "8" -> Some(8)
      [] c = "9" -> Some(9)
      [] OTHER -> None

(* char::to_digit(16) *)
to_digit(c) ==
    CASE c = "0" -> Some(0) [] c = "1" -> Some(1) [] c = "2" -> Some(2)
      [] c = "3" -> Some(3) [] c = "4" -> Some(4) [] c = "5" -> Some(5)
      [] c = "6" -> Some(6) [] c = "7" -> Some(7) [] c = "8" -> Some(8)
      [] c = "9" -> Some(9)
      [] c \in {"a", "A"} -> Some(10) [] c \in {"b", "B"} -> Some(11)
      [] c \in {"c", "C"} -> Some(12) [] c \in {"d", "D"} -> Some(13)
      [] c \in {"e", "E"} -> Some(14) [] c \in {"f", "F"} -> Some(15)
      [] OTHER -> None

(* The digit loop of from_str_radix(_, 16) on the two halves of the        *)
(* accumulator: None on an invalid digit (InvalidDigit) or as soon as      *)
(* acc * 16 + digit no longer fits the type (PosOverflow), that is, as     *)
(* soon as the high half reaches hiLimit (2^16 for u32, 1 for u16).        *)
RECURSIVE RadixLoop(_, _, _)
RadixLoop(digits, acc, hiLimit) ==
    IF digits = <<>> THEN Some(acc)
    ELSE LET d == to_digit(Head(digits))
             lo == acc.lo * 16 + (IF d.some THEN d.v ELSE 0)
             hi == acc.hi * 16 + (lo \div Pow2_16)
         IN IF ~d.some THEN None
            ELSE IF hi >= hiLimit THEN None
            ELSE RadixLoop(Tail(digits), U32(hi, lo % Pow2_16), hiLimit)

(* uN::from_str_radix(src, 16).ok() for an unsigned type: "" and a lone    *)
(* sign are errors, one leading "+" is accepted, "-" is an invalid digit.  *)
from_str_radix(src, hiLimit) ==
    IF src = <<>> THEN None
    ELSE IF src \in {<<"+">>, <<"-">>} THEN None
    ELSE IF Head(src) = "+" THEN RadixLoop(Tail(src), U32(0, 0), hiLimit)
    ELSE RadixLoop(src, U32(0, 0), hiLimit)

u32_from_str_radix(src) == from_str_radix(src, Pow2_16)

u16_from_str_radix(src) ==
    LET r == from_str_radix(src, 1)
    IN IF r.some THEN Some(r.v.lo) ELSE None

(* str::rsplit_once(':'): the parts around the last colon *)
rsplit_once(s) ==
    LET colons == {k \in 1..Len(s) : s[k] = ":"}
    IN IF colons = {} THEN None
       ELSE LET k == CHOOSE c \in colons : \A o \in colons : o <= c
            IN Some(<<SubSeq(s, 1, k - 1), SubSeq(s, k + 1, Len(s))>>)

Ipv4SocketAddr(ip, port) == [ip |-> ip, port |-> port]

(* How a call ends: with the value returned, or with a panic that unwinds *)
(* out of it (at is the expression that panicked).                         *)
Returned(v) == [kind |-> "value", v |-> v]
Panic(at) == [kind |-> "panic", at |-> at]

(* u32::swap_bytes, what u32::from_be does on a little-endian host *)
swap_bytes(x) ==
    U32((x.lo % 256) * 256 + (x.lo \div 256), (x.hi % 256) * 256 + (x.hi \div 256))

(* A slip: the byte-order conversion of the commented-out line 40 *)
parse_hex_sockaddr_from_be(a) ==
    LET parts == rsplit_once(a)
    IN IF ~parts.some THEN Panic("rsplit_once")
       ELSE LET ip == u32_from_str_radix(parts.v[1])
                port == u16_from_str_radix(parts.v[2])
            IN IF ~ip.some THEN Panic("u32::from_str_radix")
               ELSE IF ~port.some THEN Panic("u16::from_str_radix")
               ELSE Returned(Ipv4SocketAddr(swap_bytes(ip.v), port.v))

(* Every unwrap of the function panics on None/Err *)
parse_hex_sockaddr(a) ==
    LET parts == rsplit_once(a)
    IN IF ~parts.some THEN Panic("rsplit_once")
       ELSE LET ip == u32_from_str_radix(parts.v[1])
                port == u16_from_str_radix(parts.v[2])
            IN IF ~ip.some THEN Panic("u32::from_str_radix")
               ELSE IF ~port.some THEN Panic("u16::from_str_radix")
               ELSE Returned(Ipv4SocketAddr(ip.v, port.v))

----------------------------------------------------------------------------
(* String constants of the source *)

\* "(ffxiv_dx11.exe)", line 31
TargetStatField ==
    <<"(", "f", "f", "x", "i", "v", "_", "d", "x", "1", "1", ".", "e", "x",
      "e", ")">>

\* "inode", line 84
KeyInode == <<"i", "n", "o", "d", "e">>

\* "local_address", line 86
KeyLocalAddress ==
    <<"l", "o", "c", "a", "l", "_", "a", "d", "d", "r", "e", "s", "s">>

\* "rem_address", line 87
KeyRemAddress ==
    <<"r", "e", "m", "_", "a", "d", "d", "r", "e", "s", "s">>

----------------------------------------------------------------------------
(* find_ffxiv_proc_path *)

(* char::is_numeric on the characters a procfs entry name can hold *)
is_numeric(c) == c \in {"0", "1", "2", "3", "4", "5", "6", "7", "8", "9"}

(* A slip: the file-type test of lines 16-18 left out *)
IsCandidateAnyType(process) ==
    \A k \in 1..Len(process.file_name) : is_numeric(process.file_name[k])

(* The two `continue` tests of lines 16-25: the entry is a directory and   *)
(* its name holds no non-numeric character.                                *)
IsCandidate(process) ==
    /\ process.is_dir
    /\ \A k \in 1..Len(process.file_name) : is_numeric(process.file_name[k])

(* stat.split(' ').nth(1) == Some("(ffxiv_dx11.exe)") *)
StatMatches(stat) ==
    LET parts == Split(stat, " ")
    IN Len(parts) >= 2 /\ parts[2] = TargetStatField

----------------------------------------------------------------------------
(* get_ffxiv_sockets *)

DecimalDigit(d) ==
    CASE d = 0 -> "0" [] d = 1 -> "1" [] d = 2 -> "2" [] d = 3 -> "3"
      [] d = 4 -> "4" [] d = 5 -> "5" [] d = 6 -> "6" [] d = 7 -> "7"
      [] d = 8 -> "8" [] d = 9 -> "9"

(* u64::to_string *)
RECURSIVE to_string(_)
to_string(n) ==
    IF n < 10 THEN <<DecimalDigit(n)>>
    ELSE Append(to_string(n \div 10), DecimalDigit(n % 10))

(* Lines 48-56: the inode strings of the socket descriptors; metadata()    *)
(* of an entry that has gone is an Err, and its unwrap panics.             *)
SocketInodes(fds) ==
    IF \E k \in 1..Len(fds) : ~fds[k].metadata.some THEN None
    ELSE Some({to_string(fds[k].metadata.v.st_ino) :
                 k \in {j \in 1..Len(fds) : fds[j].metadata.v.is_socket}})

(* str::lines: the text split at "\n", a final empty piece dropped and a   *)
(* "\r" before the "\n" removed.                                           *)
RECURSIVE Lines(_)
Lines(text) ==
    IF text = <<>> THEN <<>>
    ELSE LET first == SplitFirst(text, "\n")
             ended == Len(first) < Len(text)
             line == IF ended /\ first # <<>> /\ first[Len(first)] = "\r"
                     THEN SubSeq(first, 1, Len(first) - 1) ELSE first
         IN <<line>> \o Lines(SubSeq(text, Len(first) + 2, Len(text)))

(* Lines 71-75: both index expressions panic when the range leaves conn *)
FieldSliceOk(conn, hf) ==
    IF hf.end_col.some THEN SliceOk(conn, hf.start_col, hf.end_col.v)
    ELSE hf.start_col <= Len(conn)

FieldSlice(conn, hf) ==
    IF hf.end_col.some THEN Slice(conn, hf.start_col, hf.end_col.v)
    ELSE SliceFrom(conn, hf.start_col)

(* A slip: the first-token step `.split(' ').next()` left out *)
FieldValueWholeSlice(conn, hf) == Trim(FieldSlice(conn, hf))

(* Lines 71-79: the slice, trimmed, cut at its first space *)
FieldValue(conn, hf) == SplitFirst(Trim(FieldSlice(conn, hf)), " ")

(* Lines 65-83: the BTreeMap of one data line, the last field of a name    *)
(* winning; None when a slice panics.                                      *)
ConnRecord(conn, hdrs) ==
    IF \E k \in 1..Len(hdrs) : ~FieldSliceOk(conn, hdrs[k]) THEN None
    ELSE Some([n \in {hdrs[k].name : k \in 1..Len(hdrs)} |->
                LET last == CHOOSE k \in 1..Len(hdrs) :
                                /\ hdrs[k].name = n
                                /\ \A j \in 1..Len(hdrs) : hdrs[j].name = n => j <= k
                IN FieldValue(conn, hdrs[last])])

SocketAddrPair(local, remote) == [local |-> local, remote |-> remote]

(* What one data line comes to: a panic (at is the expression that       *)
(* panicked), a row the filter dropped, or a decoded pair.  parsed tells   *)
(* whether parse_hex_sockaddr was called on the line.                      *)
RowPanic(at, parsed) == [kind |-> "panic", parsed |-> parsed, at |-> at]
RowSkip(parsed) == [kind |-> "skip", parsed |-> parsed]
RowPair(pair) == [kind |-> "pair", parsed |-> TRUE, pair |-> pair]

(* Lines 85-89 for a row: conn[key] panics on a missing key, and           *)
(* parse_hex_sockaddr panics on a bad token, local before remote.          *)
DecodeRow(rec) ==
    IF KeyLocalAddress \notin DOMAIN rec THEN RowPanic("conn[local_address]", FALSE)
    ELSE LET local == parse_hex_sockaddr(rec[KeyLocalAddress])
         IN IF local.kind = "panic" THEN RowPanic(local.at, TRUE)
            ELSE IF KeyRemAddress \notin DOMAIN rec
                 THEN RowPanic("conn[rem_address]", TRUE)
            ELSE LET remote == parse_hex_sockaddr(rec[KeyRemAddress])
                 IN IF remote.kind = "panic" THEN RowPanic(remote.at, TRUE)
                    ELSE RowPair(SocketAddrPair(local.v, remote.v))

(* A slip: the adapters in the other order, .map(decode) before .filter *)
RowStagesDecodeFirst(rec, socket_fds) ==
    LET row == DecodeRow(rec)
    IN IF row.kind = "panic" THEN row
       ELSE IF KeyInode \notin DOMAIN rec THEN RowPanic("conn[inode]", TRUE)
       ELSE IF rec[KeyInode] \notin socket_fds THEN RowSkip(TRUE)
       ELSE row

(* Lines 84-89 for one item of the lazy iterator: the filter, then the     *)
(* decoding of a row the filter kept.                                      *)
RowStages(rec, socket_fds) ==
    IF KeyInode \notin DOMAIN rec THEN RowPanic("conn[inode]", FALSE)
    ELSE IF rec[KeyInode] \notin socket_fds THEN RowSkip(FALSE)
    ELSE DecodeRow(rec)

----------------------------------------------------------------------------
(* The inputs: what the kernel's procfs shows.  Each sample keeps, beside  *)
(* the text the program reads, the facts the kernel rendered it from.      *)

\* The command name of the game client
TargetComm ==
    <<"f", "f", "x", "i", "v", "_", "d", "x", "1", "1", ".", "e", "x", "e">>

CommSystemd ==
    <<"s", "y", "s", "t", "e", "m", "d">>

CommWebContent ==
    <<"W", "e", "b", " ", "C", "o", "n", "t", "e", "n", "t">>

\* A 15-character name, the longest the kernel keeps, that extends the target
CommTargetParen ==
    <<"f", "f", "x", "i", "v", "_", "d", "x", "1", "1", ".", "e", "x", "e",
      ")">>

StatTail ==
    <<")", " ", "S", " ", "1", " ", "1">>

(* /proc/<pid>/stat: "<pid> (<comm>) <state> ..." *)
KernelStat(name, comm) == name \o <<" ", "(">> \o comm \o StatTail

ProcEntry(is_dir, file_name, comm, alive) ==
    [is_dir |-> is_dir, file_name |-> file_name, comm |-> comm,
     stat |-> IF alive THEN Some(KernelStat(file_name, comm)) ELSE None]

ProcEntries ==
    { ProcEntry(TRUE, <<"4", "2">>, TargetComm, TRUE),
      ProcEntry(TRUE, <<"7">>, TargetComm, TRUE),
      ProcEntry(TRUE, <<"1">>, CommSystemd, TRUE),
      ProcEntry(TRUE, <<"9">>, CommWebContent, TRUE),
      ProcEntry(TRUE, <<"5">>, CommTargetParen, TRUE),
      \* a process that exited after read_dir listed it
      ProcEntry(TRUE, <<"8">>, TargetComm, FALSE),
      \* /proc/self, a symbolic link to the game's own directory
      ProcEntry(FALSE, <<"s", "e", "l", "f">>, TargetComm, TRUE),
      \* a directory with a status record and no process-id name
      ProcEntry(TRUE, <<"4", "2", "x">>, TargetComm, TRUE),
      \* a link with a process-id name
      ProcEntry(FALSE, <<"6">>, TargetComm, TRUE) }

RECURSIVE SeqsUpTo(_, _)
SeqsUpTo(S, n) ==
    IF n = 0 THEN {<<>>}
    ELSE LET shorter == SeqsUpTo(S, n - 1)
         IN shorter \cup {Append(q, x) : q \in shorter, x \in S}

ProcDirs == SeqsUpTo(ProcEntries, MaxEntries)

\* A /proc in which the game runs as process 42
RunningProcDir ==
    <<ProcEntry(TRUE, <<"1">>, CommSystemd, TRUE),
      ProcEntry(TRUE, <<"4", "2">>, TargetComm, TRUE)>>

FdEntry(is_socket, st_ino) ==
    [metadata |-> Some([is_socket |-> is_socket, st_ino |-> st_ino])]

FdGone == [metadata |-> None]

\* Two sockets, a regular file whose inode number on its own filesystem is
\* that of a socket, and a descriptor closed after read_dir listed it
FdEntries == {FdEntry(TRUE, 7), FdEntry(TRUE, 12345), FdEntry(FALSE, 7), FdGone}

FdDirs == SeqsUpTo(FdEntries, MaxFds)

(* Address tokens as the kernel prints them (%08X:%04X) with their values, *)
(* and two tokens of the same width that are no addresses.                 *)
TokLoopback8080 ==
    <<"0", "1", "0", "0", "0", "0", "7", "F", ":", "1", "F", "9", "0">>

TokLoopback443 ==
    <<"0", "1", "0", "0", "0", "0", "7", "F", ":", "0", "1", "B", "B">>

TokAllOnes ==
    <<"F", "F", "F", "F", "F", "F", "F", "F", ":", "F", "F", "F", "F">>

TokBadDigit ==
    <<"0", "1", "0", "0", "0", "0", "7", "G", ":", "1", "F", "9", "0">>

TokNoColon ==
    <<"0", "1", "0", "0", "0", "0", "7", "F", "0", "1", "B", "B", "0">>

AddrSample(token, valid, hi, lo, port) ==
    [token |-> token, valid |-> valid,
     value |-> Ipv4SocketAddr(U32(hi, lo), port)]

Loopback8080 == AddrSample(TokLoopback8080, TRUE, 256, 127, 8080)
Loopback443 == AddrSample(TokLoopback443, TRUE, 256, 127, 443)
AllOnes == AddrSample(TokAllOnes, TRUE, 65535, 65535, 65535)
BadDigit == AddrSample(TokBadDigit, FALSE, 0, 0, 0)
NoColon == AddrSample(TokNoColon, FALSE, 0, 0, 0)

\* net/tcp's header line, as the kernel prints it
KernelHeader ==
    <<" ", " ", "s", "l", " ", " ", "l", "o", "c", "a", "l", "_", "a", "d",
      "d", "r", "e", "s", "s", " ", "r", "e", "m", "_", "a", "d", "d", "r",
      "e", "s", "s", " ", " ", " ", "s", "t", " ", "t", "x", "_", "q", "u",
      "e", "u", "e", " ", "r", "x", "_", "q", "u", "e", "u", "e", " ", "t",
      "r", " ", "t", "m", "-", ">", "w", "h", "e", "n", " ", "r", "e", "t",
      "r", "n", "s", "m", "t", " ", " ", " ", "u", "i", "d", " ", " ", "t",
      "i", "m", "e", "o", "u", "t", " ", "i", "n", "o", "d", "e">>

\* the same labels with single spaces between them
SingleSpacedHeader ==
    <<"s", "l", " ", "l", "o", "c", "a", "l", "_", "a", "d", "d", "r", "e",
      "s", "s", " ", "r", "e", "m", "_", "a", "d", "d", "r", "e", "s", "s",
      " ", "s", "t", " ", "t", "x", "_", "q", "u", "e", "u", "e", " ", "r",
      "x", "_", "q", "u", "e", "u", "e", " ", "t", "r", " ", "t", "m", "-",
      ">", "w", "h", "e", "n", " ", "r", "e", "t", "r", "n", "s", "m", "t",
      " ", "u", "i", "d", " ", "t", "i", "m", "e", "o", "u", "t", " ", "i",
      "n", "o", "d", "e">>

\* a header without the inode column
HeaderNoInode ==
    <<" ", " ", "s", "l", " ", " ", "l", "o", "c", "a", "l", "_", "a", "d",
      "d", "r", "e", "s", "s", " ", "r", "e", "m", "_", "a", "d", "d", "r",
      "e", "s", "s", " ", " ", " ", "s", "t", " ", "t", "x", "_", "q", "u",
      "e", "u", "e", " ", "r", "x", "_", "q", "u", "e", "u", "e", " ", "t",
      "r", " ", "t", "m", "-", ">", "w", "h", "e", "n", " ", "r", "e", "t",
      "r", "n", "s", "m", "t", " ", " ", " ", "u", "i", "d", " ", " ", "t",
      "i", "m", "e", "o", "u", "t">>

RowSl ==
    <<" ", " ", " ", "0", ":", " ">>

RowMiddle ==
    <<" ", "0", "1", " ", "0", "0", "0", "0", "0", "0", "0", "0", ":", "0",
      "0", "0", "0", "0", "0", "0", "0", " ", "0", "0", ":", "0", "0", "0",
      "0", "0", "0", "0", "0", " ", "0", "0", "0", "0", "0", "0", "0", "0",
      " ", " ", "1", "0", "0", "0", " ", " ", " ", " ", " ", " ", " ", " ",
      "0", " ">>

RowTail ==
    <<" ", "1", " ", "0", "0", "0", "0", "0", "0", "0", "0", "0", "0", "0",
      "0", "0", "0", "0", "0", " ", "1", "0", "0", " ", "0", " ", "0", " ",
      "1", "0", " ", "0">>

Ino7 ==
    <<"7">>

Ino12 ==
    <<"1", "2">>

Ino12345 ==
    <<"1", "2", "3", "4", "5">>

(* A data line of net/tcp in the kernel's format                            *)
(* "%4d: %08X:%04X %08X:%04X %02X %08X:%08X %02X:%08lX %08X %5u %8d %lu …" *)
KernelRow(sl, local, remote, inoText) ==
    sl \o local.token \o <<" ">> \o remote.token \o RowMiddle \o inoText \o RowTail

\* "%4d: " of entry 10000, one column wider: the values stay inside the
\* header's spans
RowSl10000 == <<"1", "0", "0", "0", "0", ":", " ">>

\* "%4d: " of entry 100000, two columns wider: the values leave the spans
RowSl100000 == <<"1", "0", "0", "0", "0", "0", ":", " ">>

(* The row for a header whose labels are not on the kernel's columns: the *)
(* first values with single spaces between them, the addresses under their *)
(* labels, and the inode under the last label of hdr.                      *)
RowUnderLabels(hdr, local, remote, inoText) ==
    LET start == <<"0", ":", " ">> \o local.token \o <<" ">> \o remote.token
                   \o <<" ", "0", "1">>
        inodeCol == Len(hdr) - Len(KeyInode)
    IN start \o [k \in 1..(inodeCol - Len(start)) |-> " "] \o inoText

(* A data line with the connection it shows: aligned tells whether the    *)
(* line is a whole line of the kernel's format with its values on the      *)
(* columns of the kernel's header.                                         *)
TcpRow(local, remote, ino, inoText) ==
    [text |-> KernelRow(RowSl, local, remote, inoText), aligned |-> TRUE,
     ino |-> ino, local |-> local, remote |-> remote]

WideRow(local, remote, ino, inoText) ==
    [text |-> KernelRow(RowSl10000, local, remote, inoText), aligned |-> TRUE,
     ino |-> ino, local |-> local, remote |-> remote]

ShiftedRow(local, remote, ino, inoText) ==
    [text |-> KernelRow(RowSl100000, local, remote, inoText), aligned |-> FALSE,
     ino |-> ino, local |-> local, remote |-> remote]

RaggedRow(text) ==
    [text |-> text, aligned |-> FALSE, ino |-> 0,
     local |-> BadDigit, remote |-> BadDigit]

ScenarioRow == TcpRow(Loopback8080, Loopback443, 12345, Ino12345)

TcpRows ==
    { ScenarioRow,
      TcpRow(AllOnes, Loopback8080, 7, Ino7),
      TcpRow(BadDigit, Loopback443, 7, Ino7),
      TcpRow(Loopback8080, NoColon, 12345, Ino12345),
      TcpRow(NoColon, BadDigit, 12, Ino12),
      \* the table's entries 10000 and 100000, their values one and two
      \* columns to the right
      WideRow(Loopback8080, Loopback443, 12345, Ino12345),
      ShiftedRow(Loopback8080, Loopback443, 12345, Ino12345),
      \* an empty line, and a line cut short
      RaggedRow(<<>>),
      RaggedRow(RowSl \o TokLoopback8080) }

RECURSIVE JoinLines(_)
JoinLines(ls) ==
    IF ls = <<>> THEN <<>> ELSE Head(ls) \o <<"\n">> \o JoinLines(Tail(ls))

(* The content of net/tcp with the rows it was printed from *)
TcpTable(hdr, rows) ==
    [header |-> hdr, rows |-> rows,
     text |-> JoinLines(<<hdr>> \o [k \in 1..Len(rows) |-> rows[k].text])]

\* The scenario's row under the header with single spaces, as the kernel
\* prints it and with its values under the labels
SingleSpacedTables ==
    { [header |-> SingleSpacedHeader, rows |-> <<ScenarioRow>>,
       text |-> JoinLines(<<SingleSpacedHeader, text>>)] :
         text \in {RowUnderLabels(SingleSpacedHeader, Loopback8080, Loopback443,
                                  Ino12345),
                   ScenarioRow.text} }

TcpTables ==
    {TcpTable(hdr, rows) : hdr \in {KernelHeader, HeaderNoInode, <<>>},
                           rows \in SeqsUpTo(TcpRows, MaxRows)}
      \cup SingleSpacedTables
      \cup {[header |-> <<>>, rows |-> <<>>, text |-> <<>>]}

\* The game's table when it holds the scenario's one connection
ScenarioTable == TcpTable(KernelHeader, <<ScenarioRow>>)

HeaderAlphabet == {" ", "s", "l"}
HeaderInputs ==
    StringsUpTo(HeaderAlphabet, MaxHeaderLen)
      \cup {KernelHeader, SingleSpacedHeader, HeaderNoInode}

AddrAlphabet == {"0", "F", "b", ":", "g", "+"}
TokPort65536 == <<"0", ":", "1", "0", "0", "0", "0">>
TokIp2Pow32 == <<"1", "0", "0", "0", "0", "0", "0", "0", "0", ":", "0">>
TokMaxPlusSign == <<"+", "F", "F", "F", "F", "F", "F", "F", "F", ":", "+", "F", "F", "F", "F">>
TokLowerCase == <<"0", "1", "0", "0", "0", "0", "7", "f", ":", "0", "1", "b", "b">>
TokTwoColons == <<"0", ":", "7", "F", ":", "1", "F", "9", "0">>
TokMinus == <<"-", "1", ":", "0">>

AddrInputs ==
    StringsUpTo(AddrAlphabet, MaxTokLen)
      \cup {TokLoopback8080, TokLoopback443, TokAllOnes, TokBadDigit, TokNoColon,
            TokPort65536, TokIp2Pow32, TokMaxPlusSign, TokLowerCase,
            TokTwoColons, TokMinus}

----------------------------------------------------------------------------
(* The state machine *)

(* No outcome yet *)
Pending == [kind |-> "pending"]

InitCommon ==
    /\ idx = 0
    /\ examined = {}
    /\ ffxiv = None
    /\ ffxiv_socket_fds = {}
    /\ headers = <<>>
    /\ tcp_conns = <<>>
    /\ rowNo = 0
    /\ decoded = {}
    /\ result = <<>>
    /\ response = Pending
    /\ fields = <<>>
    /\ addrResult = Pending

(* A request for /sockets arrives: the handler calls get_ffxiv_sockets *)
InitRequest ==
    /\ InitCommon
    /\ pc = "scan"
    /\ header = <<>>
    /\ addr = <<>>

(* The states of the filesystem a request is served in: every /proc       *)
(* listing before the game's descriptors and table, every descriptor       *)
(* listing before the scenario's table, and every table before every       *)
(* listing of socket descriptors.                                          *)
Init ==
    /\ InitRequest
    /\ \/ /\ procDir \in ProcDirs
          /\ fdDir = <<FdEntry(TRUE, 12345)>>
          /\ tcpFile = ScenarioTable
       \/ /\ procDir = RunningProcDir
          /\ fdDir \in FdDirs
          /\ tcpFile = ScenarioTable
       \/ /\ procDir = RunningProcDir
          /\ fdDir \in SeqsUpTo({FdEntry(TRUE, 7), FdEntry(TRUE, 12345)}, MaxFds)
          /\ tcpFile \in TcpTables

InitHeader ==
    /\ InitCommon
    /\ pc = "parse_header"
    /\ header \in HeaderInputs
    /\ addr = <<>>
    /\ procDir = <<>>
    /\ fdDir = <<>>
    /\ tcpFile = ScenarioTable

InitAddr ==
    /\ InitCommon
    /\ pc = "parse_hex_sockaddr"
    /\ addr \in AddrInputs
    /\ header = <<>>
    /\ procDir = <<>>
    /\ fdDir = <<>>
    /\ tcpFile = ScenarioTable

inputs == <<procDir, fdDir, tcpFile, header, addr>>
direct == <<fields, addrResult>>
table == <<headers, tcp_conns, rowNo, decoded, result>>

(* One iteration of the loop of find_ffxiv_proc_path, lines 14-34 *)
Scan ==
    /\ pc = "scan"
    /\ idx < Len(procDir)
    /\ LET process == procDir[idx + 1]
       IN IF ~IsCandidate(process)
          THEN /\ idx' = idx + 1
               /\ UNCHANGED <<pc, examined, ffxiv, response>>
          ELSE IF ~process.stat.some
          THEN \* File::open(...).unwrap() panics
               /\ examined' = examined \cup {idx}
               /\ pc' = "done"
               /\ response' = Panic("File::open(stat)")
               /\ UNCHANGED <<idx, ffxiv>>
          ELSE IF StatMatches(process.stat.v)
          THEN /\ examined' = examined \cup {idx}
               /\ ffxiv' = Some(process.file_name)
               /\ pc' = "located"
               /\ UNCHANGED <<idx, response>>
          ELSE /\ examined' = examined \cup {idx}
               /\ idx' = idx + 1
               /\ UNCHANGED <<pc, ffxiv, response>>
    /\ UNCHANGED <<inputs, direct, table, ffxiv_socket_fds>>

(* The directory is exhausted: find_ffxiv_proc_path returns None, line 35 *)
ScanEnd ==
    /\ pc = "scan"
    /\ idx = Len(procDir)
    /\ ffxiv' = None
    /\ pc' = "located"
    /\ UNCHANGED <<inputs, direct, table, idx, examined, ffxiv_socket_fds, response>>

(* find_ffxiv_proc_path().unwrap(), line 47 *)
UnwrapProcPath ==
    /\ pc = "located"
    /\ IF ffxiv.some
       THEN pc' = "fds" /\ UNCHANGED response
       ELSE pc' = "done" /\ response' = Panic("find_ffxiv_proc_path()")
    /\ UNCHANGED <<inputs, direct, table, idx, examined, ffxiv, ffxiv_socket_fds>>

(* Lines 48-56 *)
EnumerateSocketFds ==
    /\ pc = "fds"
    /\ LET inodes == SocketInodes(fdDir)
       IN IF inodes.some
          THEN /\ ffxiv_socket_fds' = inodes.v
               /\ pc' = "table"
               /\ UNCHANGED response
          ELSE /\ pc' = "done"
               /\ response' = Panic("metadata(fd)")
               /\ UNCHANGED ffxiv_socket_fds
    /\ UNCHANGED <<inputs, direct, table, idx, examined, ffxiv>>

(* Lines 57-63: the table is read, and its first line parsed; next() of an *)
(* empty Lines is None, and its unwrap panics.                             *)
ReadTable ==
    /\ pc = "table"
    /\ LET all == Lines(tcpFile.text)
       IN IF all = <<>>
          THEN /\ pc' = "done"
               /\ response' = Panic("tcp_conns.next()")
               /\ UNCHANGED <<headers, tcp_conns>>
          ELSE /\ headers' = parse_header(Head(all))
               /\ tcp_conns' = Tail(all)
               /\ pc' = "rows"
               /\ UNCHANGED response
    /\ UNCHANGED <<inputs, direct, idx, examined, ffxiv, ffxiv_socket_fds,
                   rowNo, decoded, result>>

(* collect() pulls the next data line through the adapters of lines 64-89 *)
NextRow ==
    /\ pc = "rows"
    /\ tcp_conns # <<>>
    /\ LET rec == ConnRecord(Head(tcp_conns), headers)
           row == IF rec.some THEN RowStages(rec.v, ffxiv_socket_fds)
                  ELSE RowPanic("conn[start_col..end_col]", FALSE)
       IN /\ decoded' = IF row.parsed THEN decoded \cup {rowNo} ELSE decoded
          /\ IF row.kind = "panic"
             THEN /\ pc' = "done"
                  /\ response' = Panic(row.at)
                  /\ UNCHANGED <<result, tcp_conns, rowNo>>
             ELSE /\ result' = IF row.kind = "pair" THEN Append(result, row.pair)
                               ELSE result
                  /\ tcp_conns' = Tail(tcp_conns)
                  /\ rowNo' = rowNo + 1
                  /\ UNCHANGED <<pc, response>>
    /\ UNCHANGED <<inputs, direct, idx, examined, ffxiv, ffxiv_socket_fds, headers>>

(* The lines are exhausted: the Vec is returned, line 90 *)
Collect ==
    /\ pc = "rows"
    /\ tcp_conns = <<>>
    /\ pc' = "done"
    /\ response' = Returned(result)
    /\ UNCHANGED <<inputs, direct, table, idx, examined, ffxiv, ffxiv_socket_fds>>

Next == Scan \/ ScanEnd \/ UnwrapProcPath \/ EnumerateSocketFds \/ ReadTable
          \/ NextRow \/ Collect

Spec == Init /\ [][Next]_vars

(* parse_header called on header *)
CallParseHeader ==
    /\ pc = "parse_header"
    /\ fields' = parse_header(header)
    /\ pc' = "parse_header_done"
    /\ UNCHANGED <<inputs, table, idx, examined, ffxiv, ffxiv_socket_fds,
                   response, addrResult>>

NextHeader == CallParseHeader

SpecHeader == InitHeader /\ [][NextHeader]_vars

(* parse_hex_sockaddr called on addr *)
CallParseHexSockaddr ==
    /\ pc = "parse_hex_sockaddr"
    /\ addrResult' = parse_hex_sockaddr(addr)
    /\ pc' = "parse_hex_sockaddr_done"
    /\ UNCHANGED <<inputs, table, idx, examined, ffxiv, ffxiv_socket_fds,
                   response, fields>>

NextAddr == CallParseHexSockaddr

SpecAddr == InitAddr /\ [][NextAddr]_vars

----------------------------------------------------------------------------
(* The facts the properties speak of, read off the inputs *)

Located == ffxiv.some
Finished == pc = "done"

\* The inode numbers of the game's socket descriptors
SocketInodeNumbers ==
    {fdDir[k].metadata.v.st_ino :
        k \in {j \in 1..Len(fdDir) : fdDir[j].metadata.some
                                      /\ fdDir[j].metadata.v.is_socket}}

FdsReadable == \A k \in 1..Len(fdDir) : fdDir[k].metadata.some

\* A row on the header's columns whose two addresses are addresses
WellFormedRow(r) == r.aligned /\ r.local.valid /\ r.remote.valid

Owned(r) == r.ino \in SocketInodeNumbers

PairOf(r) == SocketAddrPair(r.local.value, r.remote.value)

RECURSIVE OwnedPairs(_)
OwnedPairs(rows) ==
    IF rows = <<>> THEN <<>>
    ELSE IF Owned(Head(rows)) THEN <<PairOf(Head(rows))>> \o OwnedPairs(Tail(rows))
    ELSE OwnedPairs(Tail(rows))

\* C1: when the game is found, its descriptors can be read and its table is
\* the kernel's header followed by well-formed rows (rows on the header's
\* columns whose addresses are addresses), the list returned is
\* one pair per row whose inode is a socket of the game, no pair for any
\* other row, in the order of the rows.
ResultIsOwnedRowsInOrder ==
    ( /\ Finished
      /\ Located
      /\ FdsReadable
      /\ tcpFile.header = KernelHeader
      /\ \A k \in 1..Len(tcpFile.rows) : WellFormedRow(tcpFile.rows[k]) )
    => /\ response.kind = "value"
       /\ response.v = OwnedPairs(tcpFile.rows)

\* A table of two well-formed rows of which one is kept and one dropped
WitnessOneKeptOneDropped ==
    /\ Finished
    /\ FdsReadable
    /\ tcpFile.header = KernelHeader
    /\ Len(tcpFile.rows) = 2
    /\ \A k \in 1..2 : WellFormedRow(tcpFile.rows[k])
    /\ ~Owned(tcpFile.rows[1])
    /\ Owned(tcpFile.rows[2])
    /\ response.kind = "value"
    /\ Len(response.v) = 1

\* C2: slicing a data line by the header's columns never panics, however
\* short the line is.
ExtractionNeverPanics ==
    response.kind = "panic" => response.at # "conn[start_col..end_col]"

\* C3: when the game is found and has no socket descriptor, the empty list
\* is returned whatever the table holds after its header line.
EmptyInodeSetGivesEmptyList ==
    ( /\ Finished
      /\ Located
      /\ FdsReadable
      /\ SocketInodeNumbers = {}
      /\ tcpFile.text # <<>> )
    => /\ response.kind = "value"
       /\ response.v = <<>>

IsProcess(e) ==
    /\ e.is_dir
    /\ e.file_name # <<>>
    /\ \A k \in 1..Len(e.file_name) :
          e.file_name[k] \in {"0", "1", "2", "3", "4", "5", "6", "7", "8", "9"}

\* The positions, from 1, of the process directories of the game
GamePositions ==
    {k \in 1..Len(procDir) : IsProcess(procDir[k]) /\ procDir[k].comm = TargetComm}

\* C4: when the directory is exhausted without a match, the caller gets a
\* NotFound failure value, not a panic.
NoMatchIsNotFound ==
    (Finished /\ ~Located /\ idx = Len(procDir) /\ GamePositions = {})
    => response.kind = "NotFound"

HexChars ==
    <<"0", "1", "2", "3", "4", "5", "6", "7", "8", "9", "A", "B", "C", "D", "E", "F">>
LowerHexChars ==
    <<"0", "1", "2", "3", "4", "5", "6", "7", "8", "9", "a", "b", "c", "d", "e", "f">>

IsHexChar(c) == \E d \in 1..16 : c \in {HexChars[d], LowerHexChars[d]}
HexCharValue(c) == (CHOOSE d \in 1..16 : c \in {HexChars[d], LowerHexChars[d]}) - 1

IsHexNumber(s) == s # <<>> /\ \A k \in 1..Len(s) : IsHexChar(s[k])

\* The number of digits of s from its first digit other than 0
SignificantDigits(s) ==
    LET nonzero == {k \in 1..Len(s) : s[k] # "0"}
    IN IF nonzero = {} THEN 0
       ELSE Len(s) - (CHOOSE k \in nonzero : \A o \in nonzero : k <= o) + 1

\* The value of the digit of weight 16^w of s, 0 beyond its length
DigitAt(s, w) == IF w < Len(s) THEN HexCharValue(s[Len(s) - w]) ELSE 0

\* The value of the four digits of s of weights 16^w .. 16^(w+3)
HexQuad(s, w) ==
    DigitAt(s, w) + 16 * DigitAt(s, w + 1) + 256 * DigitAt(s, w + 2)
      + 4096 * DigitAt(s, w + 3)

ColonPositions(a) == {k \in 1..Len(a) : a[k] = ":"}
LastColon(a) == CHOOSE k \in ColonPositions(a) : \A o \in ColonPositions(a) : o <= k
LeftPart(a) == SubSeq(a, 1, LastColon(a) - 1)
RightPart(a) == SubSeq(a, LastColon(a) + 1, Len(a))

\* <hex-ip>:<hex-port> with a 32-bit left and a 16-bit right part
IsHexAddress(a) ==
    /\ ColonPositions(a) # {}
    /\ IsHexNumber(LeftPart(a)) /\ SignificantDigits(LeftPart(a)) <= 8
    /\ IsHexNumber(RightPart(a)) /\ SignificantDigits(RightPart(a)) <= 4

\* C5: a token that is no hexadecimal address gives a MalformedAddress
\* failure value, not a panic.
BadTokenIsMalformedAddress ==
    (pc = "parse_hex_sockaddr_done" /\ ~IsHexAddress(addr))
    => addrResult.kind = "MalformedAddress"

\* The runs of non-space characters of h, as 0-based spans [a, b)
NonSpaceRuns(h) ==
    {run \in (0..Len(h)) \X (0..Len(h)) :
        /\ run[1] < run[2]
        /\ \A k \in (run[1] + 1)..run[2] : h[k] # " "
        /\ (run[1] = 0 \/ h[run[1]] = " ")
        /\ (run[2] = Len(h) \/ h[run[2] + 1] = " ")}

\* C6: the fields of a header have non-decreasing start columns, every run
\* of non-space characters lies inside the span of one field, the last
\* span being open-ended; a header without such a run has no field.
FieldsCoverHeaderRuns ==
    pc = "parse_header_done" =>
        /\ \A k \in 1..(Len(fields) - 1) :
              fields[k].start_col <= fields[k + 1].start_col
        /\ \A run \in NonSpaceRuns(header) :
              \E k \in 1..Len(fields) :
                  /\ fields[k].start_col <= run[1]
                  /\ (fields[k].end_col.some => run[2] <= fields[k].end_col.v)
        /\ \A k \in 1..Len(fields) : (fields[k].end_col.some <=> k < Len(fields))
        /\ (NonSpaceRuns(header) = {} => fields = <<>>)

\* A header of two runs, one of them of two characters, has been parsed
WitnessTwoRunsParsed ==
    /\ pc = "parse_header_done"
    /\ Len(fields) = 2
    /\ \E run \in NonSpaceRuns(header) : run[2] - run[1] = 2

ScenarioPair ==
    SocketAddrPair(Ipv4SocketAddr(U32(256, 127), 8080),
                   Ipv4SocketAddr(U32(256, 127), 443))

\* C7 as stated: under the header with single spaces between its labels,
\* the table's one row for inode 12345 gives the scenario's pair.
ScenarioUnderSingleSpacedHeader ==
    ( /\ Finished
      /\ Located
      /\ tcpFile.header = SingleSpacedHeader
      /\ tcpFile.rows = <<ScenarioRow>>
      /\ 12345 \in SocketInodeNumbers )
    => /\ response.kind = "value"
       /\ response.v = <<ScenarioPair>>

\* C7: under the header as the kernel prints it, with its columns aligned
\* on the rows', the one row of the kernel's format for inode 12345, local
\* 0100007F:1F90 and remote 0100007F:01BB gives exactly one pair, local
\* {ip: 0x0100007F, port: 8080} and remote {ip: 0x0100007F, port: 443}.
ScenarioUnderKernelHeader ==
    ( /\ Finished
      /\ Located
      /\ FdsReadable
      /\ tcpFile = ScenarioTable
      /\ 12345 \in SocketInodeNumbers )
    => /\ response.kind = "value"
       /\ response.v = <<ScenarioPair>>

WitnessScenarioServed ==
    /\ Finished
    /\ tcpFile = ScenarioTable
    /\ 12345 \in SocketInodeNumbers
    /\ response.kind = "value"
    /\ Len(response.v) = 1

\* C8: a hexadecimal address decodes to the base-16 value of the part
\* before its colon, as written, and the base-16 value of the part after
\* it; 0100007F:1F90 decodes to ip 0x0100007F and port 8080.
DecodesHexAsWritten ==
    pc = "parse_hex_sockaddr_done" =>
        /\ IsHexAddress(addr) =>
              addrResult =
                  Returned(Ipv4SocketAddr(U32(HexQuad(LeftPart(addr), 4),
                                              HexQuad(LeftPart(addr), 0)),
                                          HexQuad(RightPart(addr), 0)))
        /\ addr = TokLoopback8080 =>
              addrResult = Returned(Ipv4SocketAddr(U32(256, 127), 8080))

WitnessLoopbackDecoded ==
    /\ pc = "parse_hex_sockaddr_done"
    /\ addr = TokLoopback8080
    /\ addrResult.kind = "value"

\* C9: only the status records of process directories are read, none after
\* the first match; the entry returned is the first process directory of
\* the game, and it is returned whenever the scan reaches it.
LocatorReturnsFirstGameProcess ==
    /\ \A i \in examined : IsProcess(procDir[i + 1])
    /\ Located =>
          /\ idx + 1 \in GamePositions
          /\ \A k \in GamePositions : idx + 1 <= k
          /\ ffxiv.v = procDir[idx + 1].file_name
          /\ \A i \in examined : i <= idx
    /\ (pc # "scan" /\ ~Located /\ response.kind # "panic") => GamePositions = {}
    /\ ( /\ pc # "scan"
         /\ \E k \in GamePositions :
               \A j \in 1..k : IsProcess(procDir[j]) => procDir[j].stat.some )
       => Located

\* The game is found behind an entry that shows its name and is no process
\* directory
WitnessFoundBehindLink ==
    /\ Located
    /\ idx = 1
    /\ procDir[1].comm = TargetComm
    /\ ~IsProcess(procDir[1])

Undecodable(r) == r.aligned /\ (~r.local.valid \/ ~r.remote.valid)

\* C10: under the kernel's header only rows that pass the inode filter are
\* decoded; undecodable addresses in rows the filter drops do not fail the
\* query, and an undecodable address in a row it keeps fails it whole.
DecodingFollowsFilter ==
    tcpFile.header = KernelHeader =>
        /\ \A n \in decoded : Owned(tcpFile.rows[n + 1])
        /\ ( /\ Finished
             /\ Located
             /\ FdsReadable
             /\ \A k \in 1..Len(tcpFile.rows) :
                   /\ tcpFile.rows[k].aligned
                   /\ Owned(tcpFile.rows[k]) => ~Undecodable(tcpFile.rows[k]) )
           => response.kind = "value"
        /\ ( /\ Finished
             /\ \E k \in 1..Len(tcpFile.rows) :
                   Owned(tcpFile.rows[k]) /\ Undecodable(tcpFile.rows[k]) )
           => response.kind = "panic"

\* A list is returned from a table with a kept row and a dropped row whose
\* address is undecodable
WitnessBadRowDropped ==
    /\ Finished
    /\ tcpFile.header = KernelHeader
    /\ response.kind = "value"
    /\ decoded # {}
    /\ \E k \in 1..Len(tcpFile.rows) :
          ~Owned(tcpFile.rows[k]) /\ Undecodable(tcpFile.rows[k])

====
